---- MODULE Spec2Model ----
(***************************************************************************)
(* Model of the MIMIC-IV waveform metadata extractor                       *)
(*   src/mimic-iv-waveforms/extract_metadata.py                            *)
(*   src/mimic-iv-waveforms/update_records.py                              *)
(*                                                                         *)
(* Python strings are TLA+ strings; a character is a string of length 1.   *)
(* A value that Python may leave out is a tuple: <<>> is the empty CSV     *)
(* field (or a missing attribute), <<x>> is the value x.                   *)
(***************************************************************************)
EXTENDS Integers, Sequences, FiniteSets, TLC

VARIABLES
    sig_label,      \* categorize_signal_type: the argument signal_name
    sig_type,       \* categorize_signal_type: the returned category, <<>> before the call
    tree,           \* find_all_records: the directory tree under data_dir
    scan_out,       \* find_all_records: <<>> before the call, then how the call ended
    records,        \* the `records` argument, each tuple with the files of its directory
    skip_numerics,  \* the skip_numerics argument of extract_metadata
    pc,             \* extract_metadata: "record", "segments", "numerics" or "done"
    rec_idx,        \* extract_metadata: 1-based position in `records`
    seg_num,        \* extract_metadata: seg_num of the next segment iteration
    row_idx,        \* extract_metadata: 1-based number of the next numerics row
    records_csv,    \* rows written to waveform_records.csv
    segments_csv,   \* rows written to waveform_segments.csv
    signals_csv,    \* rows written to waveform_signals.csv
    numerics_csv,   \* rows written to waveform_numerics.csv
    emitted,        \* the writerow calls of extract_metadata so far, in call order
    upd_idx,        \* extract_records_metadata: 1-based position in `records`
    upd_csv         \* rows written to the updater's output_file

scan_vars == <<sig_label, sig_type, tree, scan_out>>
input_vars == <<records, skip_numerics>>
extract_vars == <<pc, rec_idx, seg_num, row_idx,
                  records_csv, segments_csv, signals_csv, numerics_csv, emitted>>
upd_vars == <<upd_idx, upd_csv>>
vars == <<scan_vars, input_vars, extract_vars, upd_vars>>

(***************************************************************************)
(* String primitives (str.upper, str.lower, str.startswith, `in`).         *)
(***************************************************************************)
LowerChars == "abcdefghijklmnopqrstuvwxyz"
UpperChars == "ABCDEFGHIJKLMNOPQRSTUVWXYZ"
\* the characters of the model in code point order (ASCII)
AsciiOrder == " -0123456789:ABCDEFGHIJKLMNOPQRSTUVWXYZ_abcdefghijklmnopqrstuvwxyz~"

CharAt(s, i) == SubSeq(s, i, i)

RECURSIVE IndexOf(_, _, _)
IndexOf(c, tbl, i) ==
    IF i > Len(tbl) THEN 0
    ELSE IF CharAt(tbl, i) = c THEN i
    ELSE IndexOf(c, tbl, i + 1)

\* the case mappings of the ASCII letters, as tables
UpperOfLetter == [k \in 1..26 |-> CharAt(UpperChars, k)]
LowerOfLetter == [k \in 1..26 |-> CharAt(LowerChars, k)]
LowerLetters == {LowerOfLetter[k] : k \in 1..26}
UpperLetters == {UpperOfLetter[k] : k \in 1..26}

UpperChar(c) ==
    IF c \in LowerLetters THEN UpperOfLetter[IndexOf(c, LowerChars, 1)] ELSE c

LowerChar(c) ==
    IF c \in UpperLetters THEN LowerOfLetter[IndexOf(c, UpperChars, 1)] ELSE c

RECURSIVE Upper(_)
Upper(s) == IF s = "" THEN "" ELSE UpperChar(CharAt(s, 1)) \o Upper(SubSeq(s, 2, Len(s)))

RECURSIVE Lower(_)
Lower(s) == IF s = "" THEN "" ELSE LowerChar(CharAt(s, 1)) \o Lower(SubSeq(s, 2, Len(s)))

StartsWith(s, p) == Len(p) <= Len(s) /\ SubSeq(s, 1, Len(p)) = p

EndsWith(s, p) == Len(p) <= Len(s) /\ SubSeq(s, Len(s) - Len(p) + 1, Len(s)) = p

\* Python's `sub in s`
Contains(s, sub) ==
    \E k \in 1..(Len(s) - Len(sub) + 1) : SubSeq(s, k, k + Len(sub) - 1) = sub

IsDigit(c) == IndexOf(c, "0123456789", 1) > 0

\* int(s) succeeds; the names of the model hold letters and digits only
IntParses(s) == s # "" /\ \A k \in 1..Len(s) : IsDigit(CharAt(s, k))

RECURSIVE IntOf(_)
IntOf(s) ==
    IF s = "" THEN 0
    ELSE IntOf(SubSeq(s, 1, Len(s) - 1)) * 10 + (IndexOf(CharAt(s, Len(s)), "0123456789", 1) - 1)

(***************************************************************************)
(* categorize_signal_type                                                  *)
(***************************************************************************)
ecg_leads ==
    <<"I", "II", "III", "AVR", "AVL", "AVF", "V", "V1", "V2", "V3", "V4", "V5", "V6",
      "MCL", "AI", "AS", "ES">>

pressure_types ==
    <<"ABP", "ART", "AO", "BAP", "CVP", "FAP", "ICP", "IC1", "IC2",
      "LAP", "PAP", "RAP", "UAP", "UVP", "P", "P1", "P2", "P4">>

categorize_signal_type(signal_name) ==
    LET signal_name_upper == Upper(signal_name) IN
    IF \E k \in 1..Len(ecg_leads) :
           signal_name_upper = ecg_leads[k] \/ StartsWith(signal_name_upper, ecg_leads[k])
    THEN "ECG"
    ELSE IF \E k \in 1..Len(pressure_types) : Contains(signal_name_upper, pressure_types[k])
    THEN "Pressure"
    ELSE IF Contains(signal_name_upper, "PLETH") THEN "Plethysmogram"
    ELSE IF Contains(signal_name_upper, "RESP") THEN "Respiration"
    ELSE IF Contains(signal_name_upper, "CO2") THEN "Capnography"
    ELSE "Other"

(***************************************************************************)
(* Header objects returned by wfdb.rdheader                                *)
(*                                                                         *)
(* An attribute is [has, v]: has is hasattr(obj, name); v is <<>> when the *)
(* attribute is None and <<x>> when it is x.                               *)
(***************************************************************************)
A_ABSENT == [has |-> FALSE, v |-> <<>>]
A_NONE == [has |-> TRUE, v |-> <<>>]
A_VAL(x) == [has |-> TRUE, v |-> <<x>>]

\* `obj.name if hasattr(obj, 'name') else ''`: None and '' are both falsy and
\* both written as an empty CSV field
AttrOrEmpty(a) == IF a.has THEN a.v ELSE <<>>

\* truth value of an optional number: None, '' and 0 are false
TruthyNum(o) == o # <<>> /\ o[1] # 0

(***************************************************************************)
(* datetime and timedelta                                                  *)
(*                                                                         *)
(* A datetime is <<sec, usec>>: whole seconds since the first instant of   *)
(* the model and microseconds 0..999999.  datetime.max is the last         *)
(* microsecond of second DtMaxSec.  strftime('%Y-%m-%d %H:%M:%S') drops    *)
(* the microseconds, so a formatted timestamp is the number of whole       *)
(* seconds.  Frequencies and sample counts are integers.                   *)
(***************************************************************************)
DtMaxSec == 3700

MicrosPerSec == 1000000

\* round-half-even of n / d, n >= 0, d > 0
RoundHalfEven(n, d) ==
    LET fl == n \div d
        rem == n % d
    IN  IF 2 * rem > d THEN fl + 1
        ELSE IF 2 * rem < d THEN fl
        ELSE IF fl % 2 = 0 THEN fl ELSE fl + 1

\* timedelta(seconds=n / d): the quotient rounded to the nearest microsecond
timedelta(n, d) ==
    LET whole == n \div d
        us == RoundHalfEven((n % d) * MicrosPerSec, d)
    IN  IF us = MicrosPerSec THEN <<whole + 1, 0>> ELSE <<whole, us>>

\* datetime + timedelta: <<>> when it raises OverflowError, else <<datetime>>
DtAdd(dt, td) ==
    LET us == dt[2] + td[2]
        sec == dt[1] + td[1] + (us \div MicrosPerSec)
    IN  IF sec > DtMaxSec \/ sec < 0 THEN <<>> ELSE <<(<<sec, us % MicrosPerSec>>)>>

strftime(dt) == dt[1]

(***************************************************************************)
(* Regular expressions of the identity resolver                            *)
(***************************************************************************)
\* number of leading characters of s that belong to the set cs
RECURSIVE RunLen(_, _)
RunLen(s, cs) ==
    IF s = "" \/ CharAt(s, 1) \notin cs THEN 0
    ELSE 1 + RunLen(SubSeq(s, 2, Len(s)), cs)

Digits == {"0", "1", "2", "3", "4", "5", "6", "7", "8", "9"}

\* re.match at position k of  <keyword><seps>+(\d+)  with re.IGNORECASE, low
\* being s in lower case: <<>> when it does not match, else <<group(1)>>
MatchAt(keyword, seps, s, low, k) ==
    IF /\ k + Len(keyword) - 1 <= Len(s)
       /\ SubSeq(low, k, k + Len(keyword) - 1) = keyword
    THEN LET rest == SubSeq(s, k + Len(keyword), Len(s))
             nsep == RunLen(rest, seps)
             tail == SubSeq(rest, nsep + 1, Len(rest))
             ndig == RunLen(tail, Digits)
         IN  IF nsep >= 1 /\ ndig >= 1 THEN <<SubSeq(tail, 1, ndig)>> ELSE <<>>
    ELSE <<>>

\* re.search: the match at the leftmost position that has one
RECURSIVE re_search_from(_, _, _, _, _)
re_search_from(keyword, seps, s, low, k) ==
    IF k > Len(s) THEN <<>>
    ELSE LET m == MatchAt(keyword, seps, s, low, k)
         IN  IF m # <<>> THEN m ELSE re_search_from(keyword, seps, s, low, k + 1)

re_search(keyword, seps, s) ==
    LET low == Lower(s) IN re_search_from(keyword, seps, s, low, 1)

Whitespace == {" "}

\* ResolveComment that keeps the first admission id: a later match does not
\* overwrite hadm_id
ResolveComment_first_match_wins(acc, comment) ==
    LET low == Lower(comment)
        m1 == re_search("hadm_id", Whitespace, comment)
        m2 == re_search("hospital admission id", Whitespace \cup {":"}, comment)
        m3 == re_search("subject_id", Whitespace, comment)
        hadm == IF acc.hadm_id # "" THEN acc.hadm_id
                ELSE IF Contains(low, "hadm_id")
                THEN (IF m1 # <<>> THEN m1[1] ELSE acc.hadm_id)
                ELSE IF Contains(low, "hospital admission id")
                THEN (IF m2 # <<>> THEN m2[1] ELSE acc.hadm_id)
                ELSE acc.hadm_id
        subj == IF Contains(low, "subject_id") /\ m3 # <<>>
                THEN <<IntOf(m3[1])>>
                ELSE acc.subject_id_from_header
    IN  [hadm_id |-> hadm, subject_id_from_header |-> subj]

\* the body of `for comment in record.comments`: acc is [hadm_id, subject_id_from_header]
ResolveComment(acc, comment) ==
    LET low == Lower(comment)
        m1 == re_search("hadm_id", Whitespace, comment)
        m2 == re_search("hospital admission id", Whitespace \cup {":"}, comment)
        m3 == re_search("subject_id", Whitespace, comment)
        hadm == IF Contains(low, "hadm_id")
                THEN (IF m1 # <<>> THEN m1[1] ELSE acc.hadm_id)
                ELSE IF Contains(low, "hospital admission id")
                THEN (IF m2 # <<>> THEN m2[1] ELSE acc.hadm_id)
                ELSE acc.hadm_id
        subj == IF Contains(low, "subject_id") /\ m3 # <<>>
                THEN <<IntOf(m3[1])>>
                ELSE acc.subject_id_from_header
    IN  [hadm_id |-> hadm, subject_id_from_header |-> subj]

RECURSIVE ResolveComments(_, _)
ResolveComments(acc, comments) ==
    IF comments = <<>> THEN acc
    ELSE ResolveComments(ResolveComment(acc, Head(comments)), Tail(comments))

\* hadm_id and subject_id_from_header after the comment loop
ResolveIdentity(header) ==
    IF header.comments.has
    THEN ResolveComments([hadm_id |-> "", subject_id_from_header |-> <<>>],
                         header.comments.v[1])
    ELSE [hadm_id |-> "", subject_id_from_header |-> <<>>]

(***************************************************************************)
(* The record row (the same statements in extract_metadata and in          *)
(* update_records.extract_records_metadata)                                *)
(***************************************************************************)
\* end_datetime: <<>> or <<formatted timestamp>>
EndDatetime(start_datetime, duration_sec, base_freq) ==
    IF start_datetime # <<>> /\ TruthyNum(duration_sec) /\ TruthyNum(base_freq)
    THEN LET end_dt == DtAdd(start_datetime[1], timedelta(duration_sec[1], base_freq[1]))
         IN  IF end_dt = <<>> THEN <<>> ELSE <<strftime(end_dt[1])>>
    ELSE <<>>

\* start_datetime after lines 188 and 203-204: the formatted base timestamp
FormattedStart(record) ==
    LET start_datetime == AttrOrEmpty(record.base_datetime)
    IN  IF start_datetime = <<>> THEN <<>> ELSE <<strftime(start_datetime[1])>>

RecordRow(rec) ==
    LET record == rec.header[1]
        ident == ResolveIdentity(record)
        subject_id == IF TruthyNum(ident.subject_id_from_header)
                      THEN ident.subject_id_from_header[1]
                      ELSE rec.subject_id
        start_datetime == AttrOrEmpty(record.base_datetime)
        duration_sec == AttrOrEmpty(record.sig_len)
        base_freq == AttrOrEmpty(record.fs)
        num_segments == IF record.seg_name.has THEN Len(record.seg_name.v[1]) ELSE 0
    IN  [record_id |-> rec.record_name,
         subject_id |-> subject_id,
         hadm_id |-> ident.hadm_id,
         start_datetime |-> FormattedStart(record),
         end_datetime |-> EndDatetime(start_datetime, duration_sec, base_freq),
         record_duration_sec |-> duration_sec,
         file_path |-> rec.record_path,
         header_file |-> rec.record_name \o ".hea",
         base_counter_freq |-> base_freq,
         num_segments |-> num_segments]

\* UpdRecordRow without lines 122-123 of update_records.py: the subject id of
\* the directory is written even when a comment gives one
UpdRecordRow_path_subject_id(rec) ==
    LET record == rec.header[1]
        ident == ResolveIdentity(record)
        subject_id == rec.subject_id
        start_datetime == AttrOrEmpty(record.base_datetime)
        duration_sec == AttrOrEmpty(record.sig_len)
        base_freq == AttrOrEmpty(record.fs)
        num_segments == IF record.seg_name.has THEN Len(record.seg_name.v[1]) ELSE 0
    IN  [record_id |-> rec.record_name,
         subject_id |-> subject_id,
         hadm_id |-> ident.hadm_id,
         start_datetime |-> IF start_datetime = <<>> THEN <<>>
                            ELSE <<strftime(start_datetime[1])>>,
         end_datetime |-> EndDatetime(start_datetime, duration_sec, base_freq),
         record_duration_sec |-> duration_sec,
         file_path |-> rec.record_path,
         header_file |-> rec.record_name \o ".hea",
         base_counter_freq |-> base_freq,
         num_segments |-> num_segments]

\* update_records.py lines 99-147
UpdRecordRow(rec) ==
    LET record == rec.header[1]
        ident == ResolveIdentity(record)
        subject_id == IF TruthyNum(ident.subject_id_from_header)
                      THEN ident.subject_id_from_header[1]
                      ELSE rec.subject_id
        start_datetime == AttrOrEmpty(record.base_datetime)
        duration_sec == AttrOrEmpty(record.sig_len)
        base_freq == AttrOrEmpty(record.fs)
        num_segments == IF record.seg_name.has THEN Len(record.seg_name.v[1]) ELSE 0
    IN  [record_id |-> rec.record_name,
         subject_id |-> subject_id,
         hadm_id |-> ident.hadm_id,
         start_datetime |-> IF start_datetime = <<>> THEN <<>>
                            ELSE <<strftime(start_datetime[1])>>,
         end_datetime |-> EndDatetime(start_datetime, duration_sec, base_freq),
         record_duration_sec |-> duration_sec,
         file_path |-> rec.record_path,
         header_file |-> rec.record_name \o ".hea",
         base_counter_freq |-> base_freq,
         num_segments |-> num_segments]

(***************************************************************************)
(* One iteration of `for seg_num, seg_name in enumerate(record.seg_name)`  *)
(***************************************************************************)
\* IsLayoutSegment without the test for the '_0000' suffix
IsLayoutSegment_no_suffix_test(seg_name) ==
    seg_name = "~" \/ Contains(seg_name, "_layout")

IsLayoutSegment(seg_name) ==
    seg_name = "~" \/ Contains(seg_name, "_layout") \/ EndsWith(seg_name, "_0000")

\* sum(xs[:n]); a slice past the end is cut at the end
RECURSIVE SumPrefix(_, _)
SumPrefix(xs, n) ==
    IF n <= 0 \/ xs = <<>> THEN 0
    ELSE Head(xs) + SumPrefix(Tail(xs), n - 1)

\* a / b as a float, kept as the reduced fraction <<numerator, denominator>>
RECURSIVE Gcd(_, _)
Gcd(a, b) == IF b = 0 THEN a ELSE Gcd(b, a % b)

TrueDiv(a, b) == <<a \div Gcd(a, b), b \div Gcd(a, b)>>

\* the segment start time: [raised, value]; start_datetime is the record's
\* (already formatted) start_datetime field
SegStartTime(record, start_datetime, num) ==
    IF start_datetime # <<>> /\ record.fs.has
    THEN IF record.fs.v = <<>>
         THEN [raised |-> TRUE, value |-> <<>>]                \* None > 0
         ELSE IF record.fs.v[1] > 0 /\ num > 0 /\ record.seg_len.has
         THEN IF record.seg_len.v = <<>>
              THEN [raised |-> FALSE, value |-> <<>>]          \* raised inside the inner try
              ELSE LET offset_samples == SumPrefix(record.seg_len.v[1], num)
                       seg_start == DtAdd(record.base_datetime.v[1],
                                          timedelta(offset_samples, record.fs.v[1]))
                   IN  [raised |-> FALSE,
                        value |-> IF seg_start = <<>> THEN <<>> ELSE <<strftime(seg_start[1])>>]
         ELSE [raised |-> FALSE, value |-> <<>>]
    ELSE [raised |-> FALSE, value |-> <<>>]

\* seg_duration: [raised, value]
SegDuration(seg_header) ==
    IF ~seg_header.sig_len.has THEN [raised |-> TRUE, value |-> <<>>]
    ELSE IF ~TruthyNum(seg_header.sig_len.v) THEN [raised |-> FALSE, value |-> <<>>]
    ELSE IF ~seg_header.fs.has THEN [raised |-> TRUE, value |-> <<>>]
    ELSE IF ~TruthyNum(seg_header.fs.v) THEN [raised |-> FALSE, value |-> <<>>]
    ELSE IF seg_header.fs.v[1] > 0
    THEN [raised |-> FALSE,
          value |-> <<TrueDiv(seg_header.sig_len.v[1], seg_header.fs.v[1])>>]
    ELSE [raised |-> FALSE, value |-> <<>>]

\* `attr[sig_idx] if hasattr(seg_header, name) else ''`: [raised, value]
SignalField(a, sig_idx) ==
    IF ~a.has THEN [raised |-> FALSE, value |-> <<>>]
    ELSE IF a.v = <<>> THEN [raised |-> TRUE, value |-> <<>>]             \* None[sig_idx]
    ELSE IF sig_idx + 1 > Len(a.v[1]) THEN [raised |-> TRUE, value |-> <<>>]  \* IndexError
    ELSE [raised |-> FALSE, value |-> <<a.v[1][sig_idx + 1]>>]

\* seg_header.sig_name[sig_idx]: there is no hasattr test on sig_name
SignalName(seg_header, sig_idx) ==
    IF ~seg_header.sig_name.has THEN [raised |-> TRUE, value |-> <<>>]
    ELSE SignalField(seg_header.sig_name, sig_idx)

\* the signal rows written from index sig_idx on: [raised, rows]
RECURSIVE SignalRows(_, _, _, _, _)
SignalRows(record_name, num, seg_header, sig_idx, rows) ==
    IF sig_idx >= seg_header.n_sig.v[1] THEN [raised |-> FALSE, rows |-> rows]
    ELSE LET sig_name == SignalName(seg_header, sig_idx)
             sig_units == SignalField(seg_header.units, sig_idx)
             sig_gain == SignalField(seg_header.adc_gain, sig_idx)
             sig_baseline == SignalField(seg_header.baseline, sig_idx)
             sig_adc_res == SignalField(seg_header.adc_res, sig_idx)
         IN  IF \/ sig_name.raised \/ sig_units.raised \/ sig_gain.raised
                \/ sig_baseline.raised \/ sig_adc_res.raised
             THEN [raised |-> TRUE, rows |-> rows]
             ELSE SignalRows(record_name, num, seg_header, sig_idx + 1,
                      Append(rows,
                          [record_id |-> record_name,
                           segment_num |-> num,
                           signal_name |-> sig_name.value[1],
                           signal_index |-> sig_idx,
                           signal_units |-> sig_units.value,
                           signal_gain |-> sig_gain.value,
                           signal_baseline |-> sig_baseline.value,
                           signal_adc_resolution |-> sig_adc_res.value,
                           signal_description |-> "",
                           signal_type |-> categorize_signal_type(sig_name.value[1])]))

\* SegmentIteration with segments_writer.writerow placed after the signal loop
\* of lines 246-257: a failure in the loop leaves the signal rows without their
\* segment row
SegmentIteration_row_after_signals(rec, num) ==
    LET record == rec.header[1]
        seg_name == record.seg_name.v[1][num + 1]
        nothing == [skipped |-> FALSE, raised |-> TRUE, segments |-> <<>>, signals |-> <<>>]
    IN  IF IsLayoutSegment(seg_name)
        THEN [skipped |-> TRUE, raised |-> FALSE, segments |-> <<>>, signals |-> <<>>]
        ELSE IF rec.segfiles[seg_name] = <<>>
        THEN nothing                                           \* wfdb.rdheader raised
        ELSE LET seg_header == rec.segfiles[seg_name][1]
                 start_datetime == FormattedStart(record)
                 seg_start_time == SegStartTime(record, start_datetime, num)
                 seg_duration == SegDuration(seg_header)
             IN  IF seg_start_time.raised \/ seg_duration.raised THEN nothing
                 ELSE IF ~seg_header.fs.has \/ ~seg_header.n_sig.has THEN nothing
                 ELSE LET row == [record_id |-> rec.record_name,
                                  segment_name |-> seg_name,
                                  segment_num |-> num,
                                  segment_start_time |-> seg_start_time.value,
                                  segment_duration_sec |-> seg_duration.value,
                                  segment_header_file |-> seg_name \o ".hea",
                                  segment_data_file |-> IF seg_header.has_file_name
                                                        THEN seg_name \o ".dat" ELSE "",
                                  sampling_frequency |-> seg_header.fs.v,
                                  num_signals |-> seg_header.n_sig.v]
                      IN  IF seg_header.n_sig.v = <<>>                \* range(None)
                          THEN [skipped |-> FALSE, raised |-> TRUE,
                                segments |-> <<>>, signals |-> <<>>]
                          ELSE LET sigs == SignalRows(rec.record_name, num, seg_header, 0, <<>>)
                               IN  [skipped |-> FALSE, raised |-> sigs.raised,
                                    segments |-> IF sigs.raised THEN <<>> ELSE <<row>>,
                                    signals |-> sigs.rows]

\* what one iteration writes: [skipped, raised, segments, signals]
SegmentIteration(rec, num) ==
    LET record == rec.header[1]
        seg_name == record.seg_name.v[1][num + 1]
        nothing == [skipped |-> FALSE, raised |-> TRUE, segments |-> <<>>, signals |-> <<>>]
    IN  IF IsLayoutSegment(seg_name)
        THEN [skipped |-> TRUE, raised |-> FALSE, segments |-> <<>>, signals |-> <<>>]
        ELSE IF rec.segfiles[seg_name] = <<>>
        THEN nothing                                           \* wfdb.rdheader raised
        ELSE LET seg_header == rec.segfiles[seg_name][1]
                 start_datetime == FormattedStart(record)
                 seg_start_time == SegStartTime(record, start_datetime, num)
                 seg_duration == SegDuration(seg_header)
             IN  IF seg_start_time.raised \/ seg_duration.raised THEN nothing
                 ELSE IF ~seg_header.fs.has \/ ~seg_header.n_sig.has THEN nothing
                 ELSE LET row == [record_id |-> rec.record_name,
                                  segment_name |-> seg_name,
                                  segment_num |-> num,
                                  segment_start_time |-> seg_start_time.value,
                                  segment_duration_sec |-> seg_duration.value,
                                  segment_header_file |-> seg_name \o ".hea",
                                  segment_data_file |-> IF seg_header.has_file_name
                                                        THEN seg_name \o ".dat" ELSE "",
                                  sampling_frequency |-> seg_header.fs.v,
                                  num_signals |-> seg_header.n_sig.v]
                      IN  IF seg_header.n_sig.v = <<>>                \* range(None)
                          THEN [skipped |-> FALSE, raised |-> TRUE,
                                segments |-> <<row>>, signals |-> <<>>]
                          ELSE LET sigs == SignalRows(rec.record_name, num, seg_header, 0, <<>>)
                               IN  [skipped |-> FALSE, raised |-> sigs.raised,
                                    segments |-> <<row>>, signals |-> sigs.rows]

(***************************************************************************)
(* One iteration of `for _, row in df.iterrows()`                          *)
(*                                                                         *)
(* A cell is [kind, t]: "nan" (missing), "num" (the number t / 10) or      *)
(* "str" (text that is not a number).                                      *)
(***************************************************************************)
NaN == [kind |-> "nan", t |-> 0]
Num(t) == [kind |-> "num", t |-> t]
Str == [kind |-> "str", t |-> 0]

\* int(value): [raised, value]; truncation toward zero
to_int(value) ==
    IF value.kind # "num" THEN [raised |-> TRUE, value |-> <<>>]
    ELSE [raised |-> FALSE,
          value |-> <<IF value.t >= 0 THEN value.t \div 10 ELSE -((-value.t) \div 10)>>]

\* float(value): [raised, value in tenths]; float('nan') is not reached, the
\* loop skips missing cells
to_float(value) ==
    IF value.kind # "num" THEN [raised |-> TRUE, value |-> <<>>]
    ELSE [raised |-> FALSE, value |-> <<value.t>>]

EmptySlots ==
    [raised |-> FALSE, hr |-> <<>>, rr |-> <<>>, spo2 |-> <<>>,
     nibp_sys |-> <<>>, nibp_dias |-> <<>>, nibp_mean |-> <<>>,
     abp_sys |-> <<>>, abp_dias |-> <<>>, abp_mean |-> <<>>,
     cvp |-> <<>>, etco2 |-> <<>>, temp |-> <<>>,
     meas_name |-> "", meas_val |-> <<>>]

\* acc with slot f set from a conversion result c
SetSlot(acc, f, c) ==
    IF c.raised THEN [acc EXCEPT !.raised = TRUE] ELSE [acc EXCEPT ![f] = c.value]

\* the body of `for col in df.columns[1:]`
ClassifyColumn(acc, col, value) ==
    LET col_lower == Lower(col) IN
    IF value.kind = "nan" THEN acc
    ELSE IF Contains(col_lower, "spo2") \/ Contains(col_lower, "sp02")
    THEN SetSlot(acc, "spo2", to_int(value))
    ELSE IF Contains(col_lower, "hr") /\ Contains(col_lower, "heart")
    THEN SetSlot(acc, "hr", to_int(value))
    ELSE IF Contains(col_lower, "rr") /\ Contains(col_lower, "resp")
    THEN SetSlot(acc, "rr", to_int(value))
    ELSE IF Contains(col_lower, "nibp")
    THEN IF Contains(col_lower, "sys") THEN SetSlot(acc, "nibp_sys", to_int(value))
         ELSE IF Contains(col_lower, "dias") THEN SetSlot(acc, "nibp_dias", to_int(value))
         ELSE IF Contains(col_lower, "mean") THEN SetSlot(acc, "nibp_mean", to_int(value))
         ELSE acc
    ELSE IF Contains(col_lower, "abp")
    THEN IF Contains(col_lower, "sys") THEN SetSlot(acc, "abp_sys", to_int(value))
         ELSE IF Contains(col_lower, "dias") THEN SetSlot(acc, "abp_dias", to_int(value))
         ELSE IF Contains(col_lower, "mean") THEN SetSlot(acc, "abp_mean", to_int(value))
         ELSE acc
    ELSE IF Contains(col_lower, "cvp") THEN SetSlot(acc, "cvp", to_float(value))
    ELSE IF Contains(col_lower, "etco2") THEN SetSlot(acc, "etco2", to_float(value))
    ELSE IF Contains(col_lower, "temp") THEN SetSlot(acc, "temp", to_float(value))
    ELSE IF acc.meas_name = ""
    THEN IF to_float(value).raised THEN [acc EXCEPT !.raised = TRUE, !.meas_name = col]
         ELSE [acc EXCEPT !.meas_name = col, !.meas_val = to_float(value).value]
    ELSE acc

\* the column loop from column k on; it stops at the first failed conversion
RECURSIVE ClassifyColumns(_, _, _, _)
ClassifyColumns(acc, columns, cells, k) ==
    IF k > Len(columns) \/ acc.raised THEN acc
    ELSE ClassifyColumns(ClassifyColumn(acc, columns[k], cells[k]), columns, cells, k + 1)

\* MeasurementTime without the inner try/except of lines 277-282: an
\* OverflowError of the addition leaves the row loop
MeasurementTime_unguarded(record, counter_ticks) ==
    LET base_freq == AttrOrEmpty(record.fs) IN
    IF ~record.base_datetime.has THEN [raised |-> TRUE, value |-> <<>>]
    ELSE IF record.base_datetime.v # <<>> /\ TruthyNum(base_freq) /\ base_freq[1] > 0
    THEN LET meas_time == DtAdd(record.base_datetime.v[1],
                                timedelta(counter_ticks, base_freq[1]))
         IN  IF meas_time = <<>> THEN [raised |-> TRUE, value |-> <<>>]
             ELSE [raised |-> FALSE, value |-> <<strftime(meas_time[1])>>]
    ELSE [raised |-> FALSE, value |-> <<>>]

\* measurement_time: [raised, value]
MeasurementTime(record, counter_ticks) ==
    LET base_freq == AttrOrEmpty(record.fs) IN
    IF ~record.base_datetime.has THEN [raised |-> TRUE, value |-> <<>>]  \* AttributeError
    ELSE IF record.base_datetime.v # <<>> /\ TruthyNum(base_freq) /\ base_freq[1] > 0
    THEN LET meas_time == DtAdd(record.base_datetime.v[1],
                                timedelta(counter_ticks, base_freq[1]))
         IN  [raised |-> FALSE,
              value |-> IF meas_time = <<>> THEN <<>> ELSE <<strftime(meas_time[1])>>]
    ELSE [raised |-> FALSE, value |-> <<>>]

\* what the iteration over row number k (1-based) writes: [raised, rows]
NumericsIteration(rec, k) ==
    LET record == rec.header[1]
        df == rec.numerics[1]
        cells == df.rows[k]
        counter_ticks == to_int(cells[1])
        failed == [raised |-> TRUE, rows |-> <<>>]
    IN  IF counter_ticks.raised THEN failed
        ELSE LET measurement_time == MeasurementTime(record, counter_ticks.value[1])
                 slots == ClassifyColumns(EmptySlots, df.columns, cells, 2)
             IN  IF measurement_time.raised \/ slots.raised THEN failed
                 ELSE [raised |-> FALSE,
                       rows |-> <<[record_id |-> rec.record_name,
                                   measurement_time |-> measurement_time.value,
                                   counter_ticks |-> counter_ticks.value[1],
                                   heart_rate |-> slots.hr,
                                   resp_rate |-> slots.rr,
                                   spo2 |-> slots.spo2,
                                   nibp_systolic |-> slots.nibp_sys,
                                   nibp_diastolic |-> slots.nibp_dias,
                                   nibp_mean |-> slots.nibp_mean,
                                   abp_systolic |-> slots.abp_sys,
                                   abp_diastolic |-> slots.abp_dias,
                                   abp_mean |-> slots.abp_mean,
                                   cvp |-> slots.cvp,
                                   etco2 |-> slots.etco2,
                                   temperature |-> slots.temp,
                                   measurement_name |-> slots.meas_name,
                                   measurement_value |-> slots.meas_val,
                                   measurement_unit |-> ""]>>]

(***************************************************************************)
(* extract_metadata: the loop over `records`, one action per loop          *)
(* iteration, and extract_records_metadata, one action per record.         *)
(***************************************************************************)
\* One writerow call: the table written, the position j of the record in
\* `records`, and the row's record_id, segment_num and position (signal_index
\* of a signal row, row number of a numerics row), -1 where the row has none.
WriteEvent(table, j, record_id, num, index) ==
    [table |-> table, rec |-> j, record_id |-> record_id, segment_num |-> num, index |-> index]

\* line 206: records_writer.writerow
RecordEvents(j, row) == <<WriteEvent("records", j, row.record_id, -1, -1)>>

\* SegmentEvents with the signal loop of lines 246-257 placed before
\* segments_writer.writerow
SegmentEvents_signals_first(j, out) ==
    [k \in 1..Len(out.signals) |->
        WriteEvent("signals", j, out.signals[k].record_id,
                   out.signals[k].segment_num, out.signals[k].signal_index)]
    \o [k \in 1..Len(out.segments) |->
        WriteEvent("segments", j, out.segments[k].record_id, out.segments[k].segment_num, -1)]

\* lines 239-257: segments_writer.writerow, then signals_writer.writerow for
\* each signal in turn
SegmentEvents(j, out) ==
    [k \in 1..Len(out.segments) |->
        WriteEvent("segments", j, out.segments[k].record_id, out.segments[k].segment_num, -1)]
    \o [k \in 1..Len(out.signals) |->
        WriteEvent("signals", j, out.signals[k].record_id,
                   out.signals[k].segment_num, out.signals[k].signal_index)]

\* line 331: numerics_writer.writerow for the k-th row of the file
NumericsEvents(j, k, out) ==
    [m \in 1..Len(out.rows) |-> WriteEvent("numerics", j, out.rows[m].record_id, -1, k)]

\* an exception raised between wfdb.rdheader and records_writer.writerow:
\* the header cannot be read, or record.comments / record.seg_name is None
RecordRaises(rec) ==
    \/ rec.header = <<>>
    \/ rec.header[1].comments = A_NONE
    \/ rec.header[1].seg_name = A_NONE

\* continue with the next tuple of `records`, or close the files
Advance ==
    /\ rec_idx' = rec_idx + 1
    /\ pc' = IF rec_idx + 1 > Len(records) THEN "done" ELSE "record"
    /\ seg_num' = 0
    /\ row_idx' = 0

\* ProcessRecord with `break` in place of `continue` in the handler of lines
\* 340-342: a failed record ends the loop
ProcessRecord_break ==
    /\ pc = "record"
    /\ IF RecordRaises(records[rec_idx])
       THEN /\ rec_idx' = Len(records) + 1
            /\ pc' = "done"
            /\ seg_num' = 0
            /\ row_idx' = 0
            /\ UNCHANGED <<records_csv, emitted>>
       ELSE /\ records_csv' = Append(records_csv, RecordRow(records[rec_idx]))
            /\ emitted' = emitted \o RecordEvents(rec_idx, RecordRow(records[rec_idx]))
            /\ pc' = "segments"
            /\ seg_num' = 0
            /\ UNCHANGED <<rec_idx, row_idx>>
    /\ UNCHANGED <<segments_csv, signals_csv, numerics_csv>>
    /\ UNCHANGED <<scan_vars, input_vars, upd_vars>>

\* lines 154-209: read the header and write the record row
ProcessRecord ==
    /\ pc = "record"
    /\ IF RecordRaises(records[rec_idx])
       THEN /\ Advance
            /\ UNCHANGED <<records_csv, emitted>>
       ELSE /\ records_csv' = Append(records_csv, RecordRow(records[rec_idx]))
            /\ emitted' = emitted \o RecordEvents(rec_idx, RecordRow(records[rec_idx]))
            /\ pc' = "segments"
            /\ seg_num' = 0
            /\ UNCHANGED <<rec_idx, row_idx>>
    /\ UNCHANGED <<segments_csv, signals_csv, numerics_csv>>
    /\ UNCHANGED <<scan_vars, input_vars, upd_vars>>

NumSegments(rec) ==
    IF rec.header[1].seg_name.has THEN Len(rec.header[1].seg_name.v[1]) ELSE 0

\* ProcessSegment with `break` in place of `continue` in the handler of lines
\* 259-261: a failed segment ends the segment loop
ProcessSegment_break ==
    /\ pc = "segments"
    /\ seg_num < NumSegments(records[rec_idx])
    /\ LET out == SegmentIteration(records[rec_idx], seg_num)
       IN  /\ segments_csv' = segments_csv \o out.segments
           /\ signals_csv' = signals_csv \o out.signals
           /\ emitted' = emitted \o SegmentEvents(rec_idx, out)
           /\ seg_num' = IF out.raised THEN NumSegments(records[rec_idx]) ELSE seg_num + 1
    /\ UNCHANGED <<pc, rec_idx, row_idx, records_csv, numerics_csv>>
    /\ UNCHANGED <<scan_vars, input_vars, upd_vars>>

\* lines 213-261: one iteration of the segment loop
ProcessSegment ==
    /\ pc = "segments"
    /\ seg_num < NumSegments(records[rec_idx])
    /\ LET out == SegmentIteration(records[rec_idx], seg_num)
       IN  /\ segments_csv' = segments_csv \o out.segments
           /\ signals_csv' = signals_csv \o out.signals
           /\ emitted' = emitted \o SegmentEvents(rec_idx, out)
    /\ seg_num' = seg_num + 1
    /\ UNCHANGED <<pc, rec_idx, row_idx, records_csv, numerics_csv>>
    /\ UNCHANGED <<scan_vars, input_vars, upd_vars>>

\* pd.read_csv and df.columns[0] succeed
NumericsOpens(rec) ==
    /\ rec.numerics # <<>>
    /\ rec.numerics[1].readable
    /\ Len(rec.numerics[1].columns) >= 1

\* lines 264-271: after the segment loop, open the numerics file
OpenNumerics ==
    /\ pc = "segments"
    /\ seg_num >= NumSegments(records[rec_idx])
    /\ IF /\ ~skip_numerics
          /\ NumericsOpens(records[rec_idx])
          /\ Len(records[rec_idx].numerics[1].rows) >= 1
       THEN /\ pc' = "numerics"
            /\ row_idx' = 1
            /\ UNCHANGED <<rec_idx, seg_num>>
       ELSE Advance
    /\ UNCHANGED <<records_csv, segments_csv, signals_csv, numerics_csv, emitted>>
    /\ UNCHANGED <<scan_vars, input_vars, upd_vars>>

\* lines 271-338: one iteration of the numerics row loop
ProcessNumericsRow ==
    /\ pc = "numerics"
    /\ LET out == NumericsIteration(records[rec_idx], row_idx)
       IN  /\ numerics_csv' = numerics_csv \o out.rows
           /\ emitted' = emitted \o NumericsEvents(rec_idx, row_idx, out)
           /\ IF out.raised \/ row_idx = Len(records[rec_idx].numerics[1].rows)
              THEN Advance
              ELSE /\ row_idx' = row_idx + 1
                   /\ UNCHANGED <<pc, rec_idx, seg_num>>
    /\ UNCHANGED <<records_csv, segments_csv, signals_csv>>
    /\ UNCHANGED <<scan_vars, input_vars, upd_vars>>

\* update_records.py: an exception raised between wfdb.rdheader (line 97) and
\* writer.writerow (line 144)
UpdRecordRaises(rec) ==
    \/ rec.header = <<>>
    \/ rec.header[1].comments = A_NONE
    \/ rec.header[1].seg_name = A_NONE

\* update_records.py lines 91-151, run on the same corpus once the extractor
\* has finished
UpdProcessRecord ==
    /\ pc = "done"
    /\ upd_idx <= Len(records)
    /\ upd_csv' = IF UpdRecordRaises(records[upd_idx]) THEN upd_csv
                  ELSE Append(upd_csv, UpdRecordRow(records[upd_idx]))
    /\ upd_idx' = upd_idx + 1
    /\ UNCHANGED <<scan_vars, input_vars, extract_vars>>

Next ==
    \/ ProcessRecord
    \/ ProcessSegment
    \/ OpenNumerics
    \/ ProcessNumericsRow
    \/ UpdProcessRecord

\* both scripts at their first record, no file written yet
InitRun(corpora, skips) ==
    /\ records \in corpora
    /\ skip_numerics \in skips
    /\ pc = "record"
    /\ rec_idx = 1
    /\ seg_num = 0
    /\ row_idx = 0
    /\ records_csv = <<>>
    /\ segments_csv = <<>>
    /\ signals_csv = <<>>
    /\ numerics_csv = <<>>
    /\ emitted = <<>>
    /\ upd_idx = 1
    /\ upd_csv = <<>>
    /\ sig_label = ""
    /\ sig_type = <<>>
    /\ tree = {}
    /\ scan_out = <<>>

(***************************************************************************)
(* Corpora                                                                 *)
(***************************************************************************)
Header(comments, base_datetime, sig_len, fs, seg_name, seg_len) ==
    [comments |-> comments, base_datetime |-> base_datetime, sig_len |-> sig_len,
     fs |-> fs, seg_name |-> seg_name, seg_len |-> seg_len]

SegHeader(sig_len, fs, n_sig, sig_name) ==
    [sig_len |-> sig_len, fs |-> fs, n_sig |-> n_sig, sig_name |-> sig_name,
     units |-> A_VAL(<<"mV", "mmHg">>), adc_gain |-> A_VAL(<<200, 16>>),
     baseline |-> A_VAL(<<0, -100>>), adc_res |-> A_VAL(<<12, 10>>),
     has_file_name |-> TRUE]

\* the content of one record directory, before it gets its name
Content(header, segfiles, numerics) ==
    [header |-> header, segfiles |-> segfiles, numerics |-> numerics]

\* the k-th tuple of `records`: record names are unique (spec section 3)
RecordName(k) == "8000" \o CharAt("123456789", k)

Named(k, content) ==
    [record_path |-> "p10/p100/" \o RecordName(k),
     record_name |-> RecordName(k),
     subject_id |-> 100,
     header |-> content.header,
     segfiles |-> content.segfiles,
     numerics |-> content.numerics]

\* the lists of 1..n contents, named by position
RECURSIVE CorporaOfLen(_, _)
CorporaOfLen(contents, n) ==
    IF n = 0 THEN {<<>>}
    ELSE {Append(c, Named(n, x)) : c \in CorporaOfLen(contents, n - 1), x \in contents}

Corpora(contents, n) == UNION {CorporaOfLen(contents, k) : k \in 1..n}

SegNameUniverse == {"~", "seg1", "seg2", "rec_0000", "a_layout", "s_0000b"}

GoodSeg == <<SegHeader(A_VAL(4), A_VAL(2), A_VAL(2), A_VAL(<<"II", "ABP">>))>>
OneSignalSeg == <<SegHeader(A_VAL(3), A_VAL(1), A_VAL(1), A_VAL(<<"Pleth">>))>>
\* n_sig says 2, one name only: the second signal raises IndexError
ShortNamesSeg == <<SegHeader(A_VAL(4), A_VAL(2), A_VAL(2), A_VAL(<<"II">>))>>

SegFiles(seg1, seg2) ==
    [n \in SegNameUniverse |-> IF n = "seg1" THEN seg1 ELSE IF n = "seg2" THEN seg2 ELSE GoodSeg]

GoodNumerics ==
    <<[readable |-> TRUE,
       columns |-> <<"time", "HR", "SpO2 (%)">>,
       rows |-> <<(<<Num(0), Num(600), Num(980)>>), (<<Num(10), NaN, Num(975)>>)>>]>>
\* the second row has no tick counter
BadTickNumerics ==
    <<[readable |-> TRUE,
       columns |-> <<"time", "Heart Rate (HR)">>,
       rows |-> <<(<<Num(0), Num(600)>>), (<<NaN, Num(610)>>), (<<Num(20), Num(620)>>)>>]>>

MultiHeader ==
    Header(A_VAL(<<"subject_id 200", "hadm_id 31">>), A_VAL(<<10, 0>>), A_VAL(8), A_VAL(2),
           A_VAL(<<"rec_0000", "seg1", "seg2">>), A_VAL(<<0, 4, 4>>))
SingleHeader ==
    Header(A_VAL(<<>>), A_NONE, A_VAL(4), A_VAL(1), A_ABSENT, A_ABSENT)

MaxRecords == 2

RunContents ==
    {Content(<<>>, SegFiles(GoodSeg, GoodSeg), GoodNumerics),
     Content(<<MultiHeader>>, SegFiles(GoodSeg, <<>>), GoodNumerics),
     Content(<<MultiHeader>>, SegFiles(ShortNamesSeg, OneSignalSeg), <<>>),
     Content(<<SingleHeader>>, SegFiles(GoodSeg, GoodSeg), BadTickNumerics),
     Content(<<SingleHeader>>, SegFiles(GoodSeg, GoodSeg), <<>>)}

Init == InitRun(Corpora(RunContents, MaxRecords), BOOLEAN)

Spec == Init /\ [][Next]_vars

(***************************************************************************)
(* Specification SpecCat: categorize_signal_type applied to one label.     *)
(***************************************************************************)
LabelAlphabet == {"I", "V", "P", "a", "C", "2", "x"}

Labels ==
    {"II", "ABP", "PLETH", "RESP", "CO2", "XYZ",
     "aVR", "Pleth", "Resp", "MCL1", "EEG", "ICP", "etCO2", ""}
    \cup LabelAlphabet
    \cup {a \o b : a \in LabelAlphabet, b \in LabelAlphabet}

\* the extractor and the updater are not run
RunIdle ==
    /\ records = <<>>
    /\ skip_numerics = FALSE
    /\ pc = "done"
    /\ rec_idx = 1
    /\ seg_num = 0
    /\ row_idx = 0
    /\ records_csv = <<>>
    /\ segments_csv = <<>>
    /\ signals_csv = <<>>
    /\ numerics_csv = <<>>
    /\ emitted = <<>>
    /\ upd_idx = 1
    /\ upd_csv = <<>>

InitCat ==
    /\ sig_label \in Labels
    /\ sig_type = <<>>
    /\ tree = {}
    /\ scan_out = <<>>
    /\ RunIdle

Categorize ==
    /\ sig_type = <<>>
    /\ sig_type' = <<categorize_signal_type(sig_label)>>
    /\ UNCHANGED <<sig_label, tree, scan_out, input_vars, extract_vars, upd_vars>>

NextCat == Categorize

SpecCat == InitCat /\ [][NextCat]_vars

\* C2: the six labels of the specification's table get the categories it lists.
C2_Categories ==
    sig_type # <<>> =>
        /\ (sig_label = "II" => sig_type = <<"ECG">>)
        /\ (sig_label = "ABP" => sig_type = <<"Pressure">>)
        /\ (sig_label = "PLETH" => sig_type = <<"Plethysmogram">>)
        /\ (sig_label = "RESP" => sig_type = <<"Respiration">>)
        /\ (sig_label = "CO2" => sig_type = <<"Capnography">>)
        /\ (sig_label = "XYZ" => sig_type = <<"Other">>)

(***************************************************************************)
(* find_all_records (the same function in both scripts)                    *)
(*                                                                         *)
(* The tree under data_dir is a set of entries [g, s, r, kind]: the entry  *)
(* data_dir/g/s/r when s and r are not "", data_dir/g/s when only r is "", *)
(* data_dir/g when both are "".  kind is "file" (not a directory), "dir"   *)
(* (a directory without a header file named after it) or "rec" (a          *)
(* directory holding <name>.hea).  The parents of an entry are directories.*)
(***************************************************************************)
\* str < str: code point order, a proper prefix first
RECURSIVE StrLess(_, _)
StrLess(a, b) ==
    IF b = "" THEN FALSE
    ELSE IF a = "" THEN TRUE
    ELSE LET ca == IndexOf(CharAt(a, 1), AsciiOrder, 1)
             cb == IndexOf(CharAt(b, 1), AsciiOrder, 1)
         IN  IF ca # cb THEN ca < cb
             ELSE StrLess(SubSeq(a, 2, Len(a)), SubSeq(b, 2, Len(b)))

\* sorted(...) of the children of one directory: paths with the same parent
\* compare by their last component
RECURSIVE SortedNames(_)
SortedNames(S) ==
    IF S = {} THEN <<>>
    ELSE LET m == CHOOSE x \in S : \A y \in S \ {x} : StrLess(x, y)
         IN  <<m>> \o SortedNames(S \ {m})

\* names of the entries directly under data_dir, data_dir/g, data_dir/g/s
GroupEntries(t) == {e.g : e \in t}
SubjectEntries(t, g) == {e.s : e \in {x \in t : x.g = g /\ x.s # ""}}
RecordEntries(t, g, s) == {e.r : e \in {x \in t : x.g = g /\ x.s = s /\ x.r # ""}}

\* Path.is_dir()
GroupIsDir(t, g) == \E e \in t : e.g = g /\ e.s # ""
SubjectIsDir(t, g, s) == \E e \in t : e.g = g /\ e.s = s /\ e.r # ""
RecordIsDir(t, g, s, r) == \E e \in t : e.g = g /\ e.s = s /\ e.r = r /\ e.kind \in {"dir", "rec"}
\* header_file.exists()
HeaderExists(t, g, s, r) == \E e \in t : e.g = g /\ e.s = s /\ e.r = r /\ e.kind = "rec"

\* The three nested loops.  The accumulator is [raised, records]; once
\* int(subject_id) has raised ValueError nothing more is appended.
RECURSIVE ScanRecords(_, _, _, _, _)
ScanRecords(t, g, s, names, acc) ==
    IF names = <<>> \/ acc.raised THEN acc
    ELSE LET record_name == Head(names)
             subject_id == SubSeq(s, 2, Len(s))
             step ==
                 IF ~RecordIsDir(t, g, s, record_name) THEN acc
                 ELSE IF ~HeaderExists(t, g, s, record_name) THEN acc
                 ELSE IF ~IntParses(subject_id) THEN [acc EXCEPT !.raised = TRUE]
                 ELSE [acc EXCEPT !.records =
                          Append(@, <<g \o "/" \o s \o "/" \o record_name,
                                      record_name, IntOf(subject_id)>>)]
         IN  ScanRecords(t, g, s, Tail(names), step)

RECURSIVE ScanSubjects(_, _, _, _)
ScanSubjects(t, g, names, acc) ==
    IF names = <<>> \/ acc.raised THEN acc
    ELSE LET patient_dir == Head(names)
             step ==
                 IF ~SubjectIsDir(t, g, patient_dir) THEN acc
                 ELSE ScanRecords(t, g, patient_dir,
                                  SortedNames(RecordEntries(t, g, patient_dir)), acc)
         IN  ScanSubjects(t, g, Tail(names), step)

RECURSIVE ScanGroups(_, _, _)
ScanGroups(t, names, acc) ==
    IF names = <<>> \/ acc.raised THEN acc
    ELSE LET p_dir == Head(names)
             step ==
                 IF ~GroupIsDir(t, p_dir) THEN acc
                 ELSE ScanSubjects(t, p_dir,
                          SortedNames({s \in SubjectEntries(t, p_dir) : StartsWith(s, "p")}), acc)
         IN  ScanGroups(t, Tail(names), step)

find_all_records(t) ==
    ScanGroups(t, SortedNames({g \in GroupEntries(t) : StartsWith(g, "p")}),
               [raised |-> FALSE, records |-> <<>>])

(***************************************************************************)
(* Specification SpecScan: find_all_records applied to one tree.           *)
(***************************************************************************)
MaxEntries == 3

GroupNames == {"p10", "p11", "x10"}
SubjectNames == {"p100", "p20", "pabc", "s30"}
RecordNames == {"80", "81"}

EntryUniverse ==
    {[g |-> g, s |-> "", r |-> "", kind |-> "file"] : g \in GroupNames}
    \cup {[g |-> g, s |-> s, r |-> "", kind |-> "file"] : g \in GroupNames, s \in SubjectNames}
    \cup {[g |-> g, s |-> s, r |-> r, kind |-> k] :
             g \in GroupNames, s \in SubjectNames, r \in RecordNames, k \in {"file", "dir", "rec"}}

\* one kind per path, and no entry below a plain file
TreeOK(t) ==
    \A e1 \in t : \A e2 \in t \ {e1} :
        /\ ~(e1.g = e2.g /\ e1.s = e2.s /\ e1.r = e2.r)
        /\ ~(e1.s = "" /\ e1.g = e2.g)
        /\ ~(e1.r = "" /\ e1.s # "" /\ e1.g = e2.g /\ e1.s = e2.s)

RECURSIVE SubsetsUpTo(_, _)
SubsetsUpTo(U, n) ==
    IF n = 0 THEN {{}}
    ELSE LET smaller == SubsetsUpTo(U, n - 1)
         IN  smaller \cup {t \cup {e} : t \in smaller, e \in U}

Trees == {t \in SubsetsUpTo(EntryUniverse, MaxEntries) : TreeOK(t)}

InitScan ==
    /\ tree \in Trees
    /\ scan_out = <<>>
    /\ sig_label = ""
    /\ sig_type = <<>>
    /\ RunIdle

Scan ==
    /\ scan_out = <<>>
    /\ scan_out' = <<find_all_records(tree)>>
    /\ UNCHANGED <<tree, sig_label, sig_type, input_vars, extract_vars, upd_vars>>

NextScan == Scan

SpecScan == InitScan /\ [][NextScan]_vars

\* the record directories the claim speaks of: below a 'p' group and a 'p'
\* subject directory, holding a header file named after them
ScanCandidates(t) ==
    {e \in t : e.kind = "rec" /\ StartsWith(e.g, "p") /\ StartsWith(e.s, "p")}
\* those whose subject directory fits the pattern 'p' + digits
ScanFitting(t) == {e \in ScanCandidates(t) : IntParses(SubSeq(e.s, 2, Len(e.s)))}
ScanTuple(e) == <<e.g \o "/" \o e.s \o "/" \o e.r, e.r, IntOf(SubSeq(e.s, 2, Len(e.s)))>>
ScanBefore(e1, e2) ==
    \/ StrLess(e1.g, e2.g)
    \/ e1.g = e2.g /\ StrLess(e1.s, e2.s)
    \/ e1.g = e2.g /\ e1.s = e2.s /\ StrLess(e1.r, e2.r)
\* out lists exactly the tuples of E, ordered by group, subject, record
ScanListsExactly(out, E) ==
    /\ Len(out) = Cardinality(E)
    /\ \A e \in E : \E k \in 1..Len(out) : out[k] = ScanTuple(e)
    /\ \A e1 \in E : \A e2 \in E : \A k1 \in 1..Len(out) : \A k2 \in 1..Len(out) :
           (out[k1] = ScanTuple(e1) /\ out[k2] = ScanTuple(e2) /\ ScanBefore(e1, e2)) => k1 < k2

\* C7: find_all_records returns without error exactly the tuples of the record
\* directories that fit the layout, in group, subject, record order; a
\* directory that does not fit the naming pattern is skipped without error.
C7_ScanExact ==
    scan_out # <<>> =>
        /\ ~scan_out[1].raised
        /\ ScanListsExactly(scan_out[1].records, ScanFitting(tree))

\* what the code does when a subject directory is not 'p' + digits
C7_RaisesOnNonNumericSubject ==
    scan_out # <<>> =>
        /\ scan_out[1].raised <=> ScanCandidates(tree) # ScanFitting(tree)
        /\ ~scan_out[1].raised => ScanListsExactly(scan_out[1].records, ScanFitting(tree))

(***************************************************************************)
(* Properties of a run                                                     *)
(***************************************************************************)
\* the rows of a table that carry a record id
HasRowOf(csv, id) == \E k \in 1..Len(csv) : csv[k].record_id = id
\* every row of rows is in the table
AllWritten(rows, csv) == \A k \in 1..Len(rows) : \E m \in 1..Len(csv) : csv[m] = rows[k]

\* the extractor has left record j behind
Finished(j) == rec_idx > j

\* C1: a record whose header cannot be read has no row in any of the four
\* tables, and every later record is still processed: once the loop is past
\* it, a later record with a readable header has its record row and the
\* segment and signal rows of each of its segments.
C1_FailedRecordSkipped ==
    \A k \in 1..Len(records) :
        records[k].header = <<>> =>
            /\ ~HasRowOf(records_csv, records[k].record_name)
            /\ ~HasRowOf(segments_csv, records[k].record_name)
            /\ ~HasRowOf(signals_csv, records[k].record_name)
            /\ ~HasRowOf(numerics_csv, records[k].record_name)
            /\ \A j \in (k + 1)..Len(records) :
                   (Finished(j) /\ ~RecordRaises(records[j])) =>
                       /\ HasRowOf(records_csv, records[j].record_name)
                       /\ \A n \in 0..(NumSegments(records[j]) - 1) :
                              /\ AllWritten(SegmentIteration(records[j], n).segments, segments_csv)
                              /\ AllWritten(SegmentIteration(records[j], n).signals, signals_csv)

\* a run that skipped an unreadable first record and wrote the rows of the second
C1_Witness ==
    /\ pc = "done"
    /\ Len(records) = 2
    /\ records[1].header = <<>>
    /\ ~HasRowOf(records_csv, records[1].record_name)
    /\ HasRowOf(records_csv, records[2].record_name)
    /\ HasRowOf(segments_csv, records[2].record_name)
    /\ HasRowOf(signals_csv, records[2].record_name)

(***************************************************************************)
(* Specification SpecSeg: one multi-segment record, every segment list of  *)
(* up to MaxSegs names.                                                    *)
(***************************************************************************)
MaxSegs == 4

RECURSIVE SeqsOfLen(_, _)
SeqsOfLen(S, n) ==
    IF n = 0 THEN {<<>>}
    ELSE {Append(q, x) : q \in SeqsOfLen(S, n - 1), x \in S}

SeqsUpTo(S, n) == UNION {SeqsOfLen(S, k) : k \in 0..n}

\* record.seg_len: the sample count of each segment of the list
SegLenOf(seg_name) ==
    IF seg_name = "~" THEN 3
    ELSE IF seg_name = "seg1" THEN 4
    ELSE IF seg_name = "seg2" THEN 1
    ELSE IF seg_name = "s_0000b" THEN 2
    ELSE 0

SegLens(names) == [k \in 1..Len(names) |-> SegLenOf(names[k])]

SegListHeader(base_datetime, fs, names) ==
    Header(A_VAL(<<>>), base_datetime, A_VAL(SumPrefix(SegLens(names), Len(names))), fs,
           A_VAL(names), A_VAL(SegLens(names)))

SegContents ==
    {Content(<<SegListHeader(b, A_VAL(2), names)>>, SegFiles(seg1, OneSignalSeg), GoodNumerics) :
        b \in {A_VAL(<<10, 0>>), A_NONE},
        names \in SeqsUpTo(SegNameUniverse, MaxSegs),
        seg1 \in {GoodSeg, <<>>}}

InitSeg == InitRun(Corpora(SegContents, 1), {FALSE})

SpecSeg == InitSeg /\ [][Next]_vars

\* the segment list of the record being processed
SegList(j) == IF records[j].header[1].seg_name.has
              THEN records[j].header[1].seg_name.v[1] ELSE <<>>

\* the segment loop of record j is over
SegmentsDone(j) == rec_idx > j \/ (rec_idx = j /\ pc \in {"segments", "numerics"}
                                   /\ seg_num >= Len(SegList(j)))

KeptName(seg_name) ==
    seg_name # "~" /\ ~Contains(seg_name, "_layout") /\ ~EndsWith(seg_name, "_0000")

\* C3: a segment row is written only for names other than '~', without
\* '_layout' and not ending in '_0000'; its segment_num is the 0-based index of
\* the segment in the unfiltered list; rows are in list order; every kept
\* segment whose processing does not fail has its row; and the list
\* ["~", "seg1", "rec_0000", "seg2"] gives seg1 with 1 and seg2 with 3 only.
C3_SegmentNumbering ==
    \A j \in 1..Len(records) :
        records[j].header # <<>> =>
            /\ \A k \in 1..Len(segments_csv) :
                   segments_csv[k].record_id = records[j].record_name =>
                       /\ segments_csv[k].segment_num \in 0..(Len(SegList(j)) - 1)
                       /\ SegList(j)[segments_csv[k].segment_num + 1] = segments_csv[k].segment_name
                       /\ KeptName(segments_csv[k].segment_name)
            /\ \A k1 \in 1..Len(segments_csv) : \A k2 \in 1..Len(segments_csv) :
                   (/\ segments_csv[k1].record_id = records[j].record_name
                    /\ segments_csv[k2].record_id = records[j].record_name
                    /\ k1 < k2) => segments_csv[k1].segment_num < segments_csv[k2].segment_num
            /\ SegmentsDone(j) =>
                   \A n \in 0..(Len(SegList(j)) - 1) :
                       (KeptName(SegList(j)[n + 1]) /\ records[j].segfiles[SegList(j)[n + 1]] # <<>>)
                           => \E k \in 1..Len(segments_csv) :
                                  /\ segments_csv[k].record_id = records[j].record_name
                                  /\ segments_csv[k].segment_num = n
            /\ (SegmentsDone(j) /\ SegList(j) = <<"~", "seg1", "rec_0000", "seg2">>
                /\ records[j].segfiles["seg1"] # <<>>) =>
                   /\ Len(segments_csv) = 2
                   /\ segments_csv[1].segment_name = "seg1" /\ segments_csv[1].segment_num = 1
                   /\ segments_csv[2].segment_name = "seg2" /\ segments_csv[2].segment_num = 3

\* the list of the specification's example has been processed
C3_Witness ==
    /\ pc = "done"
    /\ SegList(1) = <<"~", "seg1", "rec_0000", "seg2">>
    /\ Len(segments_csv) = 2
    /\ segments_csv[1].segment_num = 1
    /\ segments_csv[2].segment_num = 3

\* record j has a base timestamp and a base frequency > 0
HasTimeBase(j) ==
    /\ records[j].header # <<>>
    /\ records[j].header[1].base_datetime.has
    /\ records[j].header[1].base_datetime.v # <<>>
    /\ records[j].header[1].fs.has
    /\ TruthyNum(records[j].header[1].fs.v)
    /\ records[j].header[1].fs.v[1] > 0

\* base timestamp of record j + (samples of the segments before index n) / fs
\* seconds, as a formatted timestamp
StartOfSegment(j, n) ==
    LET record == records[j].header[1]
        at == DtAdd(record.base_datetime.v[1],
                    timedelta(SumPrefix(record.seg_len.v[1], n), record.fs.v[1]))
    IN  <<strftime(at[1])>>

\* C4: the segment row at index N of a record with a base timestamp and a
\* base frequency > 0 has segment_start_time = base timestamp + (samples of
\* all segments before N) / frequency; at index 0 that is the base timestamp.
C4_SegmentStartTime ==
    \A j \in 1..Len(records) : \A k \in 1..Len(segments_csv) :
        (HasTimeBase(j) /\ segments_csv[k].record_id = records[j].record_name) =>
            segments_csv[k].segment_start_time = StartOfSegment(j, segments_csv[k].segment_num)

\* what the code does: the claimed start time at every index but 0, and an
\* empty start time at index 0
C4_StartTimeEmptyAtIndex0 ==
    \A j \in 1..Len(records) : \A k \in 1..Len(segments_csv) :
        (HasTimeBase(j) /\ segments_csv[k].record_id = records[j].record_name) =>
            segments_csv[k].segment_start_time =
                IF segments_csv[k].segment_num = 0 THEN <<>>
                ELSE StartOfSegment(j, segments_csv[k].segment_num)

(***************************************************************************)
(* Specification SpecTiming: one record, every combination of base         *)
(* timestamp, sample count and frequency (missing, None or a value).       *)
(* The first instant of the model is 2023-01-01 00:00:00.                  *)
(***************************************************************************)
TimingContents ==
    {Content(<<Header(A_VAL(<<>>), b, n, f, A_VAL(<<"seg1">>), A_VAL(<<4>>))>>,
             SegFiles(GoodSeg, GoodSeg), GoodNumerics) :
        b \in {A_ABSENT, A_NONE, A_VAL(<<0, 0>>), A_VAL(<<10, 600000>>)},
        n \in {A_ABSENT, A_NONE, A_VAL(0), A_VAL(1), A_VAL(3), A_VAL(3600)},
        f \in {A_ABSENT, A_NONE, A_VAL(0), A_VAL(1), A_VAL(2), A_VAL(3)}}

InitTiming == InitRun(Corpora(TimingContents, 1), {FALSE})

SpecTiming == InitTiming /\ [][Next]_vars

\* the header of the record a row was written for
HeaderOfRow(row) ==
    LET j == CHOOSE j \in 1..Len(records) : records[j].record_name = row.record_id
    IN  records[j].header[1]

IsPresent(a) == a.has /\ a.v # <<>>

\* the end timestamp the claim gives a record row
ClaimedEnd(record) ==
    IF /\ IsPresent(record.base_datetime)
       /\ IsPresent(record.sig_len) /\ record.sig_len.v[1] >= 0
       /\ IsPresent(record.fs) /\ record.fs.v[1] > 0
    THEN LET end_dt == DtAdd(record.base_datetime.v[1],
                             timedelta(record.sig_len.v[1], record.fs.v[1]))
         IN  <<strftime(end_dt[1])>>
    ELSE <<>>

\* C5: with a base timestamp, a sample count >= 0 (zero included) and a
\* frequency > 0 the record row's end_datetime is base + count / frequency
\* seconds (3600 samples at 1 Hz from 00:00:00 end at 01:00:00); otherwise it
\* is empty.  For the extractor and for the updater.
C5_EndDatetime ==
    /\ \A k \in 1..Len(records_csv) :
           records_csv[k].end_datetime = ClaimedEnd(HeaderOfRow(records_csv[k]))
    /\ \A k \in 1..Len(upd_csv) :
           upd_csv[k].end_datetime = ClaimedEnd(HeaderOfRow(upd_csv[k]))

\* what the code does: the claimed end for a sample count > 0
C5_EndDatetimePositiveCount ==
    \A k \in 1..Len(records_csv) :
        LET record == HeaderOfRow(records_csv[k]) IN
        records_csv[k].end_datetime =
            IF IsPresent(record.sig_len) /\ record.sig_len.v[1] = 0 THEN <<>>
            ELSE ClaimedEnd(record)

(***************************************************************************)
(* Specification SpecIdent: one record, every list of up to MaxComments    *)
(* header comments.                                                        *)
(***************************************************************************)
MaxComments == 3

CommentTexts ==
    {"hadm_id 31",
     "HADM_ID  32",
     "hadm_id: 33",
     "Hospital Admission ID: 34",
     "hadm_id n/a; hospital admission id 35",
     "hadm_id 36, hospital admission id 37",
     "subject_id 200",
     "age 61"}

IdentContents ==
    {Content(<<Header(A_VAL(cs), A_VAL(<<0, 0>>), A_VAL(4), A_VAL(2),
                      A_VAL(<<"seg1">>), A_VAL(<<4>>))>>,
             SegFiles(GoodSeg, GoodSeg), GoodNumerics) :
        cs \in SeqsUpTo(CommentTexts, MaxComments)}

InitIdent == InitRun(Corpora(IdentContents, 1), {FALSE})

SpecIdent == InitIdent /\ [][Next]_vars

MatchesHadm(comment) == re_search("hadm_id", Whitespace, comment) # <<>>
MatchesHospital(comment) ==
    re_search("hospital admission id", Whitespace \cup {":"}, comment) # <<>>

\* the digits captured from a comment that matches one of the two patterns
CapturedDigits(comment) ==
    IF MatchesHadm(comment) THEN re_search("hadm_id", Whitespace, comment)[1]
    ELSE re_search("hospital admission id", Whitespace \cup {":"}, comment)[1]

\* the capture of the last comment that satisfies Q, "" when there is none
LastCapture(comments, Q(_)) ==
    LET ks == {k \in 1..Len(comments) : Q(comments[k])}
    IN  IF ks = {} THEN ""
        ELSE CapturedDigits(comments[CHOOSE k \in ks : \A m \in ks : m <= k])

CommentsOfRow(row) ==
    IF HeaderOfRow(row).comments.has THEN HeaderOfRow(row).comments.v[1] ELSE <<>>

MatchesEither(comment) == MatchesHadm(comment) \/ MatchesHospital(comment)

\* C8: hadm_id of a record row is the capture of the last comment matching
\* either admission-id pattern, and empty when none matches.
C8_LastMatchOfEither ==
    /\ \A k \in 1..Len(records_csv) :
           records_csv[k].hadm_id = LastCapture(CommentsOfRow(records_csv[k]), MatchesEither)
    /\ \A k \in 1..Len(upd_csv) :
           upd_csv[k].hadm_id = LastCapture(CommentsOfRow(upd_csv[k]), MatchesEither)

\* a comment the code takes an admission id from: it contains "hadm_id" and
\* matches the first pattern, or it does not contain "hadm_id" and matches
\* the second
TakenFrom(comment) ==
    \/ MatchesHadm(comment)
    \/ ~Contains(Lower(comment), "hadm_id") /\ MatchesHospital(comment)

\* C8 amended: hadm_id is the capture of the last comment that matches the
\* pattern the code tries on it: 'hadm_id <digits>' for a comment containing
\* "hadm_id", 'hospital admission id[: ]<digits>' for any other comment.
C8_LastMatchOfTriedPattern ==
    /\ \A k \in 1..Len(records_csv) :
           records_csv[k].hadm_id = LastCapture(CommentsOfRow(records_csv[k]), TakenFrom)
    /\ \A k \in 1..Len(upd_csv) :
           upd_csv[k].hadm_id = LastCapture(CommentsOfRow(upd_csv[k]), TakenFrom)

\* both scripts wrote the id of the later of two matching comments of
\* different forms
C8_Witness ==
    /\ Len(records_csv) = 1 /\ Len(upd_csv) = 1
    /\ CommentsOfRow(records_csv[1]) = <<"hadm_id 31", "Hospital Admission ID: 34">>
    /\ records_csv[1].hadm_id = "34"
    /\ upd_csv[1].hadm_id = "34"

(***************************************************************************)
(* Specification SpecNum: one record whose numerics file has one row and   *)
(* up to MaxCols measurement columns.                                      *)
(***************************************************************************)
MaxCols == 3

ColumnNames ==
    {"HR", "Heart Rate (HR)", "SpO2 (%)", "NIBP", "NIBP sys", "ABP Mean", "CVP", "Perf"}

\* pandas keeps column names distinct
DistinctSeqs(S, n) ==
    {q \in SeqsUpTo(S, n) : \A a \in 1..Len(q) : \A b \in 1..Len(q) : q[a] = q[b] => a = b}

CellValues == {NaN, Num(725)}

NumericsFiles ==
    {[readable |-> TRUE, columns |-> <<"time">> \o cols, rows |-> <<(<<Num(15)>> \o cells)>>] :
        cols \in DistinctSeqs(ColumnNames, MaxCols), cells \in SeqsUpTo(CellValues, MaxCols)}

NumContents ==
    {Content(<<Header(A_VAL(<<>>), A_VAL(<<0, 0>>), A_VAL(4), A_VAL(2),
                      A_VAL(<<"seg1">>), A_VAL(<<4>>))>>,
             SegFiles(GoodSeg, GoodSeg), <<f>>) :
        f \in {g \in NumericsFiles : Len(g.columns) = Len(g.rows[1])}}

InitNum == InitRun(Corpora(NumContents, 1), {FALSE})

SpecNum == InitNum /\ [][Next]_vars

\* the fixed-slot rules as the claim states them
ClaimedFixedSlot(col) ==
    LET c == Lower(col) IN
    \/ Contains(c, "spo2") \/ Contains(c, "sp02")
    \/ Contains(c, "hr") /\ Contains(c, "heart")
    \/ Contains(c, "rr") /\ Contains(c, "resp")
    \/ Contains(c, "nibp") /\ (Contains(c, "sys") \/ Contains(c, "dias") \/ Contains(c, "mean"))
    \/ Contains(c, "abp") /\ (Contains(c, "sys") \/ Contains(c, "dias") \/ Contains(c, "mean"))
    \/ Contains(c, "cvp") \/ Contains(c, "etco2") \/ Contains(c, "temp")

\* the rules as the code applies them: every column containing 'nibp' or
\* 'abp' is consumed by the blood pressure branch
CodeFixedSlot(col) ==
    LET c == Lower(col) IN
    \/ ClaimedFixedSlot(col)
    \/ Contains(c, "nibp")
    \/ Contains(c, "abp")

\* the first column after the tick column that has a value and satisfies
\* no rule of Fixed: <<>> when there is none, else <<its position>>
FirstGeneric(columns, cells, Fixed(_)) ==
    LET ks == {k \in 2..Len(columns) : cells[k].kind # "nan" /\ ~Fixed(columns[k])}
    IN  IF ks = {} THEN <<>> ELSE <<CHOOSE k \in ks : \A m \in ks : k <= m>>

\* numerics row number k of the file of record 1 holds the generic slot that
\* the rules Fixed prescribe
GenericSlotIs(k, Fixed(_)) ==
    LET df == records[1].numerics[1]
        g == FirstGeneric(df.columns, df.rows[k], Fixed)
    IN  IF g = <<>>
        THEN numerics_csv[k].measurement_name = "" /\ numerics_csv[k].measurement_value = <<>>
        ELSE /\ numerics_csv[k].measurement_name = df.columns[g[1]]
             /\ numerics_csv[k].measurement_value = <<df.rows[k][g[1]].t>>

\* C6: the generic slot of an emitted numerics row holds the first column with
\* a value that matches none of the fixed-slot rules (NIBP/ABP needing 'nibp'
\* or 'abp' plus one of sys/dias/mean), and is empty only if there is none; a
\* column named exactly HR leaves heart_rate empty and goes to the generic
\* slot.
C6_GenericSlot ==
    \A k \in 1..Len(numerics_csv) :
        /\ GenericSlotIs(k, ClaimedFixedSlot)
        /\ LET df == records[1].numerics[1] IN
           (Len(df.columns) = 2 /\ df.columns[2] = "HR" /\ df.rows[k][2].kind = "num") =>
               /\ numerics_csv[k].heart_rate = <<>>
               /\ numerics_csv[k].measurement_name = "HR"

\* what the code does: a column containing 'nibp' or 'abp' without sys, dias
\* or mean is dropped, it never reaches the generic slot
C6_GenericSlotOfCode ==
    \A k \in 1..Len(numerics_csv) : GenericSlotIs(k, CodeFixedSlot)

(***************************************************************************)
(* Specification SpecFail: one record with failing segments, failing       *)
(* numerics rows and timestamps next to datetime.max.                      *)
(***************************************************************************)
MaxFailSegs == 3

\* n_sig is None: the segment row is written, then range(None) raises
NoneNSigSeg == <<SegHeader(A_VAL(4), A_VAL(2), A_NONE, A_VAL(<<"II">>))>>
\* no fs attribute: reading the segment's frequency raises before the row
NoFsSeg == <<SegHeader(A_VAL(4), A_ABSENT, A_VAL(1), A_VAL(<<"II">>))>>

\* the second row has text where a number is expected
BadCellNumerics ==
    <<[readable |-> TRUE,
       columns |-> <<"time", "CVP">>,
       rows |-> <<(<<Num(0), Num(50)>>), (<<Num(10), Str>>), (<<Num(20), Num(70)>>)>>]>>
\* the second row is 10 ticks after the base timestamp, the others 0 and 2
LateTickNumerics ==
    <<[readable |-> TRUE,
       columns |-> <<"time", "CVP">>,
       rows |-> <<(<<Num(0), Num(50)>>), (<<Num(100), Num(60)>>), (<<Num(20), Num(70)>>)>>]>>

FailSegLens(names) == [k \in 1..Len(names) |-> 2 * k]

FailContents ==
    {Content(<<Header(A_VAL(<<>>), A_VAL(b), A_VAL(8), f, A_VAL(names), A_VAL(FailSegLens(names)))>>,
             SegFiles(seg1, seg2), numerics) :
        b \in {<<0, 0>>, <<DtMaxSec - 1, 0>>},
        f \in {A_VAL(2), A_NONE},
        names \in SeqsUpTo({"seg1", "seg2", "rec_0000"}, MaxFailSegs),
        seg1 \in {GoodSeg, <<>>, ShortNamesSeg, NoneNSigSeg, NoFsSeg},
        seg2 \in {OneSignalSeg, <<>>},
        numerics \in {GoodNumerics, BadTickNumerics, BadCellNumerics, LateTickNumerics}}

InitFail == InitRun(Corpora(FailContents, 1), {FALSE})

SpecFail == InitFail /\ [][Next]_vars

\* the rows of a table written for segment n of record j
SegRowsOf(csv, j, n) ==
    SelectSeq(csv, LAMBDA row : row.record_id = records[j].record_name /\ row.segment_num = n)

\* iteration n of the segment loop of record j is over
SegmentProcessed(j, n) ==
    rec_idx > j \/ (rec_idx = j /\ pc \in {"segments", "numerics"} /\ seg_num > n)

\* the except clause of lines 259-261 is reached in iteration n of record j
SegmentFails(j, n) == SegmentIteration(records[j], n).raised

\* C9: a segment whose processing fails (unreadable header, or a failure
\* while its segment row or signal rows are produced) has no segment row and
\* no signal row; the record row and the rows of the other segments are
\* written as without the failure.
C9_FailedSegmentLeavesNoRow ==
    \A j \in 1..Len(records) :
        records[j].header # <<>> =>
            \A n \in 0..(Len(SegList(j)) - 1) :
                SegmentProcessed(j, n) =>
                    /\ SegmentFails(j, n) =>
                           /\ SegRowsOf(segments_csv, j, n) = <<>>
                           /\ SegRowsOf(signals_csv, j, n) = <<>>
                    /\ ~SegmentFails(j, n) =>
                           /\ SegRowsOf(segments_csv, j, n) = SegmentIteration(records[j], n).segments
                           /\ SegRowsOf(signals_csv, j, n) = SegmentIteration(records[j], n).signals
                    /\ HasRowOf(records_csv, records[j].record_name)

\* the failure of iteration n comes before segments_writer.writerow: the
\* header cannot be read, or deriving a field of the segment row raises
FailsBeforeSegmentRow(j, n) ==
    LET name == SegList(j)[n + 1]
        file == records[j].segfiles[name]
    IN  /\ KeptName(name)
        /\ \/ file = <<>>
           \/ ~file[1].sig_len.has \/ ~file[1].fs.has \/ ~file[1].n_sig.has
           \/ records[j].header[1].base_datetime.v # <<>> /\ records[j].header[1].fs = A_NONE

\* the number of leading signals of a segment header that can be written
RECURSIVE WritableSignals(_, _)
WritableSignals(seg_header, sig_idx) ==
    IF seg_header.n_sig.v = <<>> THEN 0
    ELSE IF sig_idx >= seg_header.n_sig.v[1] THEN 0
    ELSE IF \/ ~seg_header.sig_name.has \/ seg_header.sig_name.v = <<>>
            \/ sig_idx + 1 > Len(seg_header.sig_name.v[1])
    THEN 0
    ELSE 1 + WritableSignals(seg_header, sig_idx + 1)

\* C9 amended: a segment whose header cannot be read, or whose failure is
\* raised before its segment row is written, has no segment row and no signal
\* row; a failure raised while the signal rows are produced leaves the
\* segment row and the signal rows written before it; the record row and the
\* rows of the other segments are written as without the failure.
C9_FailedSegmentRows ==
    \A j \in 1..Len(records) :
        records[j].header # <<>> =>
            \A n \in 0..(Len(SegList(j)) - 1) :
                SegmentProcessed(j, n) =>
                    /\ (SegmentFails(j, n) /\ FailsBeforeSegmentRow(j, n)) =>
                           /\ SegRowsOf(segments_csv, j, n) = <<>>
                           /\ SegRowsOf(signals_csv, j, n) = <<>>
                    /\ (SegmentFails(j, n) /\ ~FailsBeforeSegmentRow(j, n)) =>
                           /\ Len(SegRowsOf(segments_csv, j, n)) = 1
                           /\ Len(SegRowsOf(signals_csv, j, n)) =
                                  WritableSignals(records[j].segfiles[SegList(j)[n + 1]][1], 0)
                           /\ \A k \in 1..Len(SegRowsOf(signals_csv, j, n)) :
                                  SegRowsOf(signals_csv, j, n)[k].signal_index = k - 1
                    /\ ~SegmentFails(j, n) =>
                           /\ SegRowsOf(segments_csv, j, n) = SegmentIteration(records[j], n).segments
                           /\ SegRowsOf(signals_csv, j, n) = SegmentIteration(records[j], n).signals
                           /\ KeptName(SegList(j)[n + 1]) =>
                                  /\ Len(SegRowsOf(segments_csv, j, n)) = 1
                                  /\ Len(SegRowsOf(signals_csv, j, n)) =
                                         records[j].segfiles[SegList(j)[n + 1]][1].n_sig.v[1]
                    /\ HasRowOf(records_csv, records[j].record_name)

\* seg1 failed at its second signal and seg2, after it, was written in full
C9_Witness ==
    /\ pc = "done"
    /\ SegList(1) = <<"seg1", "seg2">>
    /\ records[1].segfiles["seg1"] = ShortNamesSeg
    /\ SegmentFails(1, 0)
    /\ Len(SegRowsOf(segments_csv, 1, 0)) = 1
    /\ Len(SegRowsOf(signals_csv, 1, 0)) = 1
    /\ Len(SegRowsOf(segments_csv, 1, 1)) = 1
    /\ Len(SegRowsOf(signals_csv, 1, 1)) = 1

\* the numerics rows written for record j
NumericsRowsOf(j) ==
    SelectSeq(numerics_csv, LAMBDA row : row.record_id = records[j].record_name)

\* the numerics block of record j is open: the file exists and can be read
NumericsRead(j) == ~skip_numerics /\ NumericsOpens(records[j])

\* the segment header of a kept segment can be read and has an n_sig, so that
\* only the derivation of a field can fail before its row
OnlyFieldsCanFail(j, n) ==
    /\ KeptName(SegList(j)[n + 1])
    /\ records[j].segfiles[SegList(j)[n + 1]] # <<>>
    /\ records[j].segfiles[SegList(j)[n + 1]][1].n_sig.has

Overflows(base, n, d) == DtAdd(base, timedelta(n, d)) = <<>>

\* a timestamp field: empty when the addition raises, else the formatted sum
TimeField(base, n, d) ==
    IF Overflows(base, n, d) THEN <<>> ELSE <<strftime(DtAdd(base, timedelta(n, d))[1])>>

\* int() of the tick counter or of a measurement value of row k raises
CoercionFails(df, k) ==
    \/ df.rows[k][1].kind # "num"
    \/ \E c \in 2..Len(df.columns) : df.rows[k][c].kind = "str"

\* the rows of the file before the first row whose coercion fails
RowsBeforeFailure(df) ==
    LET bad == {k \in 1..Len(df.rows) : CoercionFails(df, k)}
    IN  IF bad = {} THEN Len(df.rows) ELSE (CHOOSE k \in bad : \A m \in bad : k <= m) - 1

EventsOf(table) == SelectSeq(emitted, LAMBDA e : e.table = table)

\* the four tables hold what the writerow calls wrote, in call order
EmittedIsTables ==
    /\ LET ev == EventsOf("records")
       IN  /\ Len(ev) = Len(records_csv)
           /\ \A k \in 1..Len(ev) : ev[k].record_id = records_csv[k].record_id
    /\ LET ev == EventsOf("segments")
       IN  /\ Len(ev) = Len(segments_csv)
           /\ \A k \in 1..Len(ev) :
                  /\ ev[k].record_id = segments_csv[k].record_id
                  /\ ev[k].segment_num = segments_csv[k].segment_num
    /\ LET ev == EventsOf("signals")
       IN  /\ Len(ev) = Len(signals_csv)
           /\ \A k \in 1..Len(ev) :
                  /\ ev[k].record_id = signals_csv[k].record_id
                  /\ ev[k].segment_num = signals_csv[k].segment_num
                  /\ ev[k].index = signals_csv[k].signal_index
    /\ LET ev == EventsOf("numerics")
       IN  /\ Len(ev) = Len(numerics_csv)
           /\ \A k \in 1..Len(ev) : ev[k].record_id = numerics_csv[k].record_id

\* a call before the p-th one wrote a row of the table with the same record_id
WrittenBefore(p, table) ==
    \E q \in 1..(p - 1) :
        /\ emitted[q].table = table
        /\ emitted[q].record_id = emitted[p].record_id

\* a call before the p-th one wrote the segment row of the p-th row's segment
SegmentWrittenBefore(p) ==
    \E q \in 1..(p - 1) :
        /\ emitted[q].table = "segments"
        /\ emitted[q].record_id = emitted[p].record_id
        /\ emitted[q].segment_num = emitted[p].segment_num

\* C11: at every point of an extract_metadata run, each row of the segments,
\* signals and numerics tables carries a record_id whose record row was
\* written before it, and each signal row carries the (record_id,
\* segment_num) of a segment row written before it.
C11_RowsReferenceWrittenRecord ==
    /\ EmittedIsTables
    /\ \A p \in 1..Len(emitted) :
           /\ emitted[p].table # "records" => WrittenBefore(p, "records")
           /\ emitted[p].table = "signals" => SegmentWrittenBefore(p)
    /\ \A k \in 1..Len(segments_csv) : HasRowOf(records_csv, segments_csv[k].record_id)
    /\ \A k \in 1..Len(numerics_csv) : HasRowOf(records_csv, numerics_csv[k].record_id)
    /\ \A k \in 1..Len(signals_csv) :
           /\ HasRowOf(records_csv, signals_csv[k].record_id)
           /\ \E m \in 1..Len(segments_csv) :
                  /\ segments_csv[m].record_id = signals_csv[k].record_id
                  /\ segments_csv[m].segment_num = signals_csv[k].segment_num

\* a finished run that wrote rows to all four tables, over a record with a
\* segment that failed after its first signal row
C11_Witness ==
    /\ pc = "done"
    /\ \E j \in 1..Len(records) :
           /\ ~RecordRaises(records[j])
           /\ \E n \in 0..(NumSegments(records[j]) - 1) :
                  /\ SegmentIteration(records[j], n).raised
                  /\ SegmentIteration(records[j], n).signals # <<>>
    /\ Len(segments_csv) > 0
    /\ Len(signals_csv) > 0
    /\ Len(numerics_csv) > 0

\* the place of a writerow call within the loop iteration of its record: the
\* record row, then the segment and signal rows, then the numerics rows
Phase(e) == IF e.table = "records" THEN 0 ELSE IF e.table = "numerics" THEN 2 ELSE 1

\* the order the rows are to be written in: by record in scan order, within a
\* record by phase, the segment phase by segment_num with the segment row
\* (index -1) before its signal rows by signal_index, the numerics phase by
\* row number
ClaimedBefore(e1, e2) ==
    \/ e1.rec < e2.rec
    \/ /\ e1.rec = e2.rec
       /\ \/ Phase(e1) < Phase(e2)
          \/ /\ Phase(e1) = 1
             /\ Phase(e2) = 1
             /\ \/ e1.segment_num < e2.segment_num
                \/ e1.segment_num = e2.segment_num /\ e1.index < e2.index
          \/ /\ Phase(e1) = 2
             /\ Phase(e2) = 2
             /\ e1.index < e2.index

\* every writerow call so far is in its place
EmissionOrdered ==
    /\ EmittedIsTables
    /\ \A p \in 1..Len(emitted) :
           LET e == emitted[p]
           IN  /\ e.rec \in 1..Len(records)
               /\ e.rec <= rec_idx
               /\ e.record_id = records[e.rec].record_name
               /\ e.table # "records" =>
                      \E q \in 1..(p - 1) : emitted[q].table = "records" /\ emitted[q].rec = e.rec
               /\ e.table = "signals" =>
                      \E q \in 1..(p - 1) :
                          /\ emitted[q].table = "segments"
                          /\ emitted[q].rec = e.rec
                          /\ emitted[q].segment_num = e.segment_num
               /\ e.table \in {"segments", "signals"} =>
                      /\ e.segment_num \in 0..(NumSegments(records[e.rec]) - 1)
                      /\ KeptName(SegList(e.rec)[e.segment_num + 1])
               /\ \A q \in (p + 1)..Len(emitted) : ClaimedBefore(e, emitted[q])

\* a step keeps the rows already written and writes rows of the current record only
EmissionStep ==
    /\ Len(emitted') >= Len(emitted)
    /\ SubSeq(emitted', 1, Len(emitted)) = emitted
    /\ \A p \in (Len(emitted) + 1)..Len(emitted') : emitted'[p].rec = rec_idx

\* C12: over a whole extract_metadata run the rows are written record by
\* record in scan order: the record row first, then for each non-layout
\* segment in list order its segment row followed by its signal rows in index
\* order, then the numerics rows; a row once written stays, and no row of a
\* record is written after a row of a later record.
C12_EmissionOrder == []EmissionOrdered /\ [][EmissionStep]_vars

\* a finished run over two records, each of which wrote its record row,
\* segment rows, signal rows and numerics rows
C12_Witness ==
    /\ pc = "done"
    /\ Len(records) = 2
    /\ \A j \in 1..2 : \A t \in {"records", "segments", "signals", "numerics"} :
           \E p \in 1..Len(emitted) : emitted[p].rec = j /\ emitted[p].table = t

(***************************************************************************)
(* update_records.extract_records_metadata against extract_metadata        *)
(***************************************************************************)
\* the updater has gone through `records`
UpdFinished == upd_idx > Len(records)

\* the records the extractor wrote a record row for, among the first n
RECURSIVE RowsOfFirst(_)
RowsOfFirst(n) ==
    IF n = 0 THEN <<>>
    ELSE IF RecordRaises(records[n]) THEN RowsOfFirst(n - 1)
    ELSE Append(RowsOfFirst(n - 1), RecordRow(records[n]))

\* what the updater has written is what the extractor wrote for the same records
SameRecordRows ==
    pc = "done" =>
        /\ records_csv = RowsOfFirst(Len(records))
        /\ upd_csv = RowsOfFirst(upd_idx - 1)
        /\ UpdFinished => upd_csv = records_csv

\* a step of the updater leaves the four tables of the extractor alone
UpdaterWritesRecordsOnly ==
    (upd_idx' # upd_idx \/ upd_csv' # upd_csv) =>
        UNCHANGED <<records_csv, segments_csv, signals_csv, numerics_csv, emitted>>

\* C13: on the same corpus, with the same unreadable headers and whatever
\* segment and numerics failures, the updater writes the same sequence of
\* record rows as extract_metadata writes to waveform_records.csv, and it
\* writes to its records output only.
C13_UpdaterSameRecords == []SameRecordRows /\ [][UpdaterWritesRecordsOnly]_vars

\* both runs are over, one record failed, another wrote its record row and had
\* a failing segment or a failing numerics row
C13_Witness ==
    /\ pc = "done"
    /\ UpdFinished
    /\ \E j \in 1..Len(records) : RecordRaises(records[j])
    /\ \E j \in 1..Len(records) :
           /\ ~RecordRaises(records[j])
           /\ \E n \in 0..(NumSegments(records[j]) - 1) : SegmentIteration(records[j], n).raised
    /\ Len(upd_csv) >= 1
    /\ upd_csv = records_csv

====
